---------------------------- MODULE Spec2Model ----------------------------
(***************************************************************************)
(* Model of the per-market stream recorder of jobs/md_recorder.py:         *)
(* PerMarketRecorder (on_data, _open_if_needed, _close_and_finalize, ...)  *)
(* and the shutdown block of __main__, over a disk of gzip files, each     *)
(* kept as the sequence of its gzip members and the lines they hold.       *)
(***************************************************************************)
EXTENDS Integers, Sequences, FiniteSets, TLC

\* ------------------------------------------------------------------ bounds
MaxEnvelopes == 3      \* lines of the stream fed to on_data, over all runs
MaxDay       == 2      \* days the wall clock can reach
MaxRuns      == 2      \* process runs (a run ends by exit or by kill)

Keys         == {"M1", "M2"}

\* ------------------------------------------------------- dicts and sequences
Has(f, k)        == k \in DOMAIN f
Get(f, k, dflt)  == IF k \in DOMAIN f THEN f[k] ELSE dflt
Put(f, k, v)     == [x \in (DOMAIN f) \cup {k} |-> IF x = k THEN v ELSE f[x]]
Del(f, k)        == [x \in (DOMAIN f) \ {k} |-> f[x]]
EmptyDict        == [x \in {} |-> 0]
Range(q)         == {q[i] : i \in 1 .. Len(q)}

\* ------------------------------------------------------------ the feed
\* A marketDefinition fragment; a field the JSON object lacks is "absent".
NoMd == [has |-> FALSE, inPlay |-> "absent", status |-> "absent",
         eventTypeId |-> "absent", marketTime |-> "absent", name |-> "absent"]
Md(ip, st, et, mt, nm) ==
    [has |-> TRUE, inPlay |-> ip, status |-> st,
     eventTypeId |-> et, marketTime |-> mt, name |-> nm]

MdActive         == Md("true",   "absent", "absent", "absent", "absent")
MdInactive       == Md("false",  "absent", "absent", "absent", "absent")
MdClosed         == Md("absent", "CLOSED", "absent", "absent", "absent")
MdClosedInactive == Md("false",  "CLOSED", "absent", "absent", "absent")
MdActiveClosed   == Md("true",   "CLOSED", "absent", "absent", "absent")
MdMeta           == Md("absent", "OPEN",   "4",      "D2T12",  "Match Odds")
\* A fragment whose fields are present with the JSON value null.
MdNulls          == Md("null",   "null",   "null",   "null",   "null")

Definitions == {NoMd, MdActive, MdInactive, MdClosed, MdClosedInactive,
                MdActiveClosed, MdMeta}

\* One entry of the "mc" list that is a JSON object.
Mc(id, md) == [id |-> id, marketDefinition |-> md, form |-> "object"]

\* An entry of the "mc" list that is not a JSON object (a number, a string).
Scalar == [id |-> "", marketDefinition |-> NoMd, form |-> "scalar"]

\* One line of the stream as on_data receives it: its "op", its "ct" and its
\* "mc" list. The line's text is identified by its position in the feed.
Envelope(op, ct, mc) == [op |-> op, ct |-> ct, mc |-> mc, form |-> "object"]

\* A line that holds the text "op":"mcm" and is not a well-formed envelope:
\* "undecodable" is not JSON, "array" is JSON whose top level is no object,
\* "mc_scalar" is an object whose "mc" is no list (null, a number).
Malformed(form) == [op |-> "mcm", ct |-> "absent", mc |-> <<>>, form |-> form]

\* Lines that list one market change of market k, and lines that list two
\* market changes drawn from us.
One(k, defs) == {Envelope("mcm", "absent", <<Mc(k, d)>>) : d \in defs}
Two(us)      == {Envelope("mcm", "absent", <<a, b>>) : a \in us, b \in us}

\* Heartbeats (also one that carries a market change), a line of another op,
\* an mcm line without market changes, and a market change without id.
ControlLines ==
    {Envelope("mcm", "HEARTBEAT", <<>>),
     Envelope("mcm", "HEARTBEAT", <<Mc("M1", MdActive)>>),
     Envelope("connection", "absent", <<>>),
     Envelope("mcm", "absent", <<>>),
     Envelope("mcm", "absent", <<Mc("", NoMd)>>)}

\* The feed of one market: every definition fragment, and a line that lists
\* the market twice.
FeedLines ==
    ControlLines \cup One("M1", Definitions)
    \cup Two({Mc("M1", NoMd), Mc("M1", MdActive)})

\* The feed of two markets.
TwoKeyLines ==
    One("M1", {NoMd, MdActive}) \cup One("M2", {NoMd, MdActive})
    \cup Two({Mc(k, d) : k \in Keys, d \in {NoMd, MdActive}})

\* The feed of one market over several process runs.
RestartLines == One("M1", {NoMd, MdActive, MdActiveClosed, MdMeta})

\* Lines that are not well-formed envelopes, also one whose "mc" list holds
\* a market change before an entry that is no object.
MalformedLines ==
    {Malformed("undecodable"), Malformed("array"), Malformed("mc_scalar"),
     Envelope("mcm", "absent", <<Scalar>>),
     Envelope("mcm", "absent", <<Mc("M1", MdActive), Scalar>>)}

\* The feed of one market with malformed lines and null fields in it.
IrregularLines ==
    MalformedLines \cup One("M1", {NoMd, MdActive, MdMeta, MdNulls})

\* The I/O call that fails during one handler call (its first execution).
Faults == {"none", "makedirs", "open", "write", "flush", "close",
           "finalize", "remove"}

\* ------------------------------------------------------------ paths
NoFile == [day |-> 0, evt |-> "", mid |-> "", ext |-> ""]

\* iso_to_dt followed by strftime("%Y-%m-%d"): the day of an ISO time,
\* 0 for None (s is None or does not parse).
iso_to_dt(s) ==
    CASE s = "D1T12" -> 1
      [] s = "D2T12" -> 2
      [] OTHER       -> 0

market_base_dir(evt, start_iso, now) ==
    LET d == iso_to_dt(start_iso)
    IN  [day |-> IF d # 0 THEN d ELSE now, evt |-> evt]

market_paths(market_id, evt, start_iso, now) ==
    LET base_dir == market_base_dir(evt, start_iso, now)
        base     == [day |-> base_dir.day, evt |-> base_dir.evt,
                     mid |-> market_id, ext |-> "jsonl.gz"]
    IN  [final |-> base, part |-> [base EXCEPT !.ext = "jsonl.gz.part"]]

DirOf(path) == [day |-> path.day, evt |-> path.evt]


\* ------------------------------------------------------------ recorder
(***************************************************************************)
(* The operators below work on a record s holding the listener's maps      *)
(* (files, raw_files, paths, meta, stats, inplay), the disk (disk, dirs),  *)
(* the wall clock (now), the exception in flight (raised), the I/O call    *)
(* that is to fail in this handler call (fault), and the observations the  *)
(* properties are stated over (the obs_ fields, never read by the code).   *)
(*   files     : sequence (dict order) of [mid, pending]; pending are the  *)
(*               lines written to the GzipFile and not yet on disk         *)
(*   raw_files : sequence of [mid, path, begun], the file object open on   *)
(*               path; begun: bytes of its gzip member have reached disk   *)
(*   disk      : path -> sequence of gzip members [lines, done]; done: the *)
(*               member is terminated (end-of-stream marker and trailer)   *)
(*   dirs      : set of directories                                        *)
(***************************************************************************)
Mids(q)      == {q[i].mid : i \in 1 .. Len(q)}
Entry(q, m)  == q[CHOOSE i \in 1 .. Len(q) : q[i].mid = m]
Pop(q, m)    == SelectSeq(q, LAMBDA e : e.mid # m)
SetEntry(q, m, e) == [i \in 1 .. Len(q) |-> IF q[i].mid = m THEN e ELSE q[i]]

\* An I/O call of the given kind fails when it is the armed fault. On a full
\* disk ("nospace") the flush of a handle fails and then its close.
Fails(s, kind)   == s.fault = kind \/ (s.fault = "nospace" /\ kind = "flush")
Consume(s)       == [s EXCEPT !.fault = IF @ = "nospace" THEN "close" ELSE "none",
                              !.obs_ioErrors = TRUE]
Raise(s, exc)    == [Consume(s) EXCEPT !.raised = exc]

\* An exception that is no I/O failure leaves on_data.
Throw(s, exc)    == [s EXCEPT !.raised = exc]

\* inplay_get with the default of the lookup inverted.
inplay_get_default_true(s, mid) == Get(s.inplay, mid, TRUE)

\* self.inplay.get(mid, False)
inplay_get(s, mid) == Get(s.inplay, mid, FALSE)

\* _ensure_paths: resolve the paths from meta, create the directory.
ensure_paths(s, mid) ==
    LET info == Get(s.meta, mid, EmptyDict)
        p    == market_paths(mid, Get(info, "eventTypeId", "Unknown"),
                             Get(info, "marketTime", "absent"), s.now)
    IN  IF Fails(s, "makedirs") THEN Raise(s, "OSError")
        ELSE [s EXCEPT !.dirs  = @ \cup {DirOf(p.final)},
                       !.paths = Put(@, mid, p),
                       !.obs_resolved = @ \cup
                           {[mid   |-> mid,
                             evt   |-> Get(info, "eventTypeId", "Unknown"),
                             start |-> Get(info, "marketTime", "absent"),
                             final |-> p.final]}]

\* open_target that writes to the final path directly.
open_target_final(p) == p.final

\* The path _open_if_needed opens for writing.
open_target(p) == p.part

\* open(path, "ab"): creates the file when missing, keeps its content.
open_append(disk_, path) ==
    IF Has(disk_, path) THEN disk_ ELSE Put(disk_, path, <<>>)

\* The stats record _open_if_needed installs.
fresh_stats == [lines |-> 0, first_pt |-> 0, last_pt |-> 0, bytes |-> 0]

\* _open_if_needed
open_if_needed(s, mid) ==
    IF mid \in Mids(s.files) THEN s
    ELSE LET s1 == ensure_paths(s, mid) IN
         IF s1.raised # "none" THEN s1
         ELSE IF Fails(s1, "open") THEN Raise(s1, "OSError")
         ELSE LET path == open_target(s1.paths[mid]) IN
              [s1 EXCEPT !.disk      = open_append(@, path),
                         !.files     = Append(@, [mid |-> mid, pending |-> <<>>]),
                         !.raw_files = Append(@, [mid |-> mid, path |-> path,
                                                  begun |-> FALSE]),
                         !.stats     = Put(@, mid, fresh_stats)]

\* The file at path after data has been written behind what it holds: the
\* lines continue the last member when the writer's member has begun, and
\* begin a member otherwise.
written(members, begun, data) ==
    IF begun /\ members # <<>>
    THEN [members EXCEPT ![Len(members)].lines = @ \o data]
    ELSE Append(members, [lines |-> data, done |-> FALSE])

\* The file after the writer's member has been terminated.
terminated(members) ==
    [members EXCEPT ![Len(members)].done = TRUE]

\* The pending lines of mid's writer reach its file (flush of the GzipFile
\* and of the raw file); obs_partEver records them as written to that path.
Drain(s, mid) ==
    LET raw  == Entry(s.raw_files, mid)
        data == Entry(s.files, mid).pending
    IN  [s EXCEPT !.disk  = Put(@, raw.path,
                                written(Get(@, raw.path, <<>>), raw.begun, data)),
                  !.files = SetEntry(@, mid, [mid |-> mid, pending |-> <<>>]),
                  !.raw_files = SetEntry(@, mid, [raw EXCEPT !.begun = TRUE]),
                  !.obs_partEver = Put(@, raw.path,
                                       Get(@, raw.path, {}) \cup Range(data))]

\* fh.close(); raw.close(): what is pending reaches the file and the member
\* is terminated.
Finish(s, mid) ==
    LET s1   == Drain(s, mid)
        path == Entry(s.raw_files, mid).path
    IN  [s1 EXCEPT !.disk = Put(@, path, terminated(@[path]))]

\* _flush_fsync: best effort, every failure swallowed.
flush_fsync(s, mid) ==
    IF mid \notin Mids(s.files) \/ mid \notin Mids(s.raw_files) THEN s
    ELSE IF Fails(s, "flush") THEN Consume(s)
    ELSE Drain(s, mid)

\* _close_writer that pops mid from files only.
close_writer_keep_raw(s, mid) ==
    LET open == mid \in Mids(s.files) /\ mid \in Mids(s.raw_files)
        s1   == IF ~open THEN s
                ELSE IF Fails(s, "close") THEN Consume(s)
                ELSE Finish(s, mid)
    IN  [s1 EXCEPT !.files = Pop(@, mid)]

\* _close_writer: pops both maps; close() writes out what is pending and
\* ends the member, and a failing close() loses both.
close_writer(s, mid) ==
    LET open == mid \in Mids(s.files) /\ mid \in Mids(s.raw_files)
        s1   == IF ~open THEN s
                ELSE IF Fails(s, "close") THEN Consume(s)
                ELSE Finish(s, mid)
    IN  [s1 EXCEPT !.files = Pop(@, mid), !.raw_files = Pop(@, mid)]

\* A merge that puts the bytes of .part in front of what the final file held.
merged_part_first(final_content, part_content) == part_content \o final_content

\* What the final file holds after .part has been merged into it.
merged(final_content, part_content) == final_content \o part_content

\* finalize_file that copies .part into the final file and never deletes it.
finalize_file_keep_part(s, mid) ==
    IF ~Has(s.paths, mid) THEN s
    ELSE LET final_path == s.paths[mid].final
             part_path  == s.paths[mid].part
         IN
         IF ~Has(s.disk, part_path) THEN s
         ELSE [s EXCEPT !.disk = Put(@, final_path,
                                     merged(Get(@, final_path, <<>>), @[part_path])),
                        !.obs_finLog = @ \cup {final_path}]

\* What a copy of .part that raises midway has appended to the final file:
\* the beginning of the first member of .part, cut before its first line is
\* complete, and nothing of a zero-length .part.
cut_short(part_content) ==
    IF part_content = <<>> THEN <<>>
    ELSE <<[lines |-> <<>>, done |-> FALSE]>>

\* finalize_file that renames .part over the final file when that exists.
finalize_file_rename_only(s, mid) ==
    IF ~Has(s.paths, mid) THEN s
    ELSE LET final_path == s.paths[mid].final
             part_path  == s.paths[mid].part
         IN
         IF ~Has(s.disk, part_path) THEN s
         ELSE IF Fails(s, "finalize")
              THEN [Consume(s) EXCEPT !.obs_finalizeFailed = TRUE]
         ELSE [s EXCEPT !.disk = Del(Put(@, final_path, @[part_path]), part_path),
                        !.obs_finLog = @ \cup {final_path}]

\* What is observed of a _finalize_file that goes on to merge or rename the
\* .part of mid: whether that file is zero-length.
finalizing(s, mid, part_path) ==
    IF s.disk[part_path] = <<>>
    THEN [s EXCEPT !.obs_finalizedEmpty = @ \cup {mid}]
    ELSE s

\* _finalize_file
finalize_file(s, mid) ==
    IF ~Has(s.paths, mid) THEN s
    ELSE LET final_path == s.paths[mid].final
             part_path  == s.paths[mid].part
         IN
         IF ~Has(s.disk, part_path) THEN s
         ELSE IF Fails(s, "finalize")
              THEN [Consume(s) EXCEPT !.obs_finalizeFailed = TRUE]
         ELSE IF Has(s.disk, final_path) /\ Fails(s, "copy")
              THEN [Consume(s) EXCEPT
                      !.disk = Put(@, final_path,
                                   merged(@[final_path], cut_short(@[part_path]))),
                      !.obs_finLog = @ \cup {final_path},
                      !.obs_finalizeFailed = TRUE]
         ELSE IF Has(s.disk, final_path)
              THEN LET s1 == [finalizing(s, mid, part_path) EXCEPT
                                !.disk = Put(@, final_path,
                                             merged(@[final_path], @[part_path])),
                                !.obs_finLog = @ \cup {final_path}]
                   IN  IF Fails(s1, "remove")
                       THEN [Consume(s1) EXCEPT !.obs_finalizeFailed = TRUE]
                       ELSE [s1 EXCEPT !.disk = Del(@, part_path)]
              ELSE [finalizing(s, mid, part_path) EXCEPT
                             !.disk = Del(Put(@, final_path, @[part_path]), part_path),
                             !.obs_finLog = @ \cup {final_path}]

\* _summarize: one log line with the lines counted in stats, next to what
\* the final path and the .part path hold at that moment; no state of the
\* recorder changes.
summarize(s, mid) ==
    LET st == Get(s.stats, mid, [lines |-> 0])
        p  == Get(s.paths, mid, [final |-> NoFile, part |-> NoFile])
    IN  [s EXCEPT !.obs_summaries =
            Append(@, [mid |-> mid, lines |-> st.lines,
                       final |-> Get(s.disk, p.final, <<>>),
                       part  |-> Has(s.disk, p.part)])]

\* _close_and_finalize
close_and_finalize(s, mid) ==
    LET s1 == flush_fsync(s, mid)
        s2 == close_writer(s1, mid)
        s3 == finalize_file(s2, mid)
        s4 == summarize(s3, mid)
    IN  [s4 EXCEPT !.obs_finalizeCalls = Put(@, mid, Get(@, mid, 0) + 1)]


\* md.get(field) is None: the field is absent or null. Truthy: neither
\* absent, nor null, nor the empty string.
IsNone(v) == v \in {"absent", "null"}
Truthy(v) == v \notin {"absent", "null", ""}

\* The marketDefinition merge of on_data (meta and the in-play flag); the
\* flag is set from every fragment that has the key "inPlay", to
\* bool(value), which is False for null.
merge_definition(s, mid, md) ==
    LET rec0 == Get(s.meta, mid, EmptyDict)
        rec1 == IF ~IsNone(md.eventTypeId)
                THEN Put(rec0, "eventTypeId", md.eventTypeId) ELSE rec0
        rec2 == IF Truthy(md.marketTime)
                THEN Put(rec1, "marketTime", md.marketTime) ELSE rec1
        rec3 == IF Truthy(md.name)
                THEN Put(rec2, "marketName", md.name) ELSE rec2
    IN  [s EXCEPT !.meta   = Put(@, mid, rec3),
                  !.inplay = IF md.inPlay # "absent"
                             THEN Put(@, mid, md.inPlay = "true") ELSE @,
                  !.obs_everActive = IF md.inPlay = "true" THEN @ \cup {mid} ELSE @,
                  !.obs_terminal   = IF md.status = "CLOSED" THEN @ \cup {mid} ELSE @]

\* len(encoded) of a line.
EncodedLen(line) == 10 + line

\* The stats update of on_data after an accepted write.
update_stats(st, line, pt) ==
    [lines    |-> st.lines + 1,
     bytes    |-> st.bytes + EncodedLen(line),
     first_pt |-> IF pt # 0 /\ st.first_pt = 0 THEN pt ELSE st.first_pt,
     last_pt  |-> IF pt # 0 THEN pt ELSE st.last_pt]

\* fh.write(encoded) on mid's open writer.
write_line(s, mid, line) ==
    LET e == Entry(s.files, mid) IN
    [s EXCEPT !.files = SetEntry(@, mid, [e EXCEPT !.pending = Append(@, line)]),
              !.obs_accepted = Put(@, mid, Append(Get(@, mid, <<>>),
                                  [line |-> line, path |-> Entry(s.raw_files, mid).path])),
              !.obs_gateBreach = IF Get(s.inplay, mid, FALSE) THEN @ ELSE @ \cup {mid}]

\* on_write_error without the except branch: the exception leaves on_data.
on_write_error_reraise(s, mid, line) ==
    Raise([s EXCEPT !.obs_failedAt = Put(@, mid, line)], "OSError")

\* The except branch around fh.write: close and finalize this market, go on
\* with the next market change.
on_write_error(s, mid, line) ==
    close_and_finalize([Consume(s) EXCEPT !.obs_failedAt = Put(@, mid, line)], mid)

\* closes_market that compares the status in the wrong case.
closes_market_wrong_case(md) == md.has /\ md.status = "closed"

\* Whether on_data finalizes mid after the append of this update.
closes_market(md) == md.has /\ md.status = "CLOSED"

\* gate_state that reads the in-play flag as it was before the merge.
gate_state_before_merge(before, after) == before

\* The maps the in-play gate reads: those left by the merge of the update's
\* own definition.
gate_state(before, after) == after

\* What is observed of an update of market mid: the market has been seen.
observed(s, mid) == [s EXCEPT !.obs_seen = @ \cup {mid}]

\* record_update that finalizes on CLOSED before it appends the line (to a
\* handle it opens anew).
record_update_finalize_first(s, mid, md, line, pt) ==
    LET s1 == IF closes_market(md)
              THEN open_if_needed(close_and_finalize(s, mid), mid)
              ELSE s
        s3 == write_line(s1, mid, line)
    IN  [s3 EXCEPT !.stats[mid] = update_stats(@, line, pt)]

\* The write that returned, the stats, and the auto-finalize when the
\* update's definition has status CLOSED, in this order.
record_update(s, mid, md, line, pt) ==
    LET s3 == write_line(s, mid, line)
        s4 == [s3 EXCEPT !.stats[mid] = update_stats(@, line, pt)]
    IN  IF closes_market(md)
        THEN close_and_finalize(s4, mid)
        ELSE s4

\* The body of on_data's loop for one entry mc of the "mc" list.
process_mc(s, mc, line, pt) ==
    LET mid == mc.id
        md  == mc.marketDefinition
    IN
    IF mc.form # "object" THEN Throw(s, "AttributeError")
    ELSE IF mid = "" THEN s
    ELSE LET s0 == observed(s, mid)
             s1 == IF md.has THEN merge_definition(s0, mid, md) ELSE s0 IN
         IF ~inplay_get(gate_state(s0, s1), mid) THEN s1
         ELSE LET s1o == [s1 EXCEPT !.obs_offered =
                                       Put(@, mid, Append(Get(@, mid, <<>>), line))]
                  s2  == open_if_needed(s1o, mid)
              IN
              IF s2.raised # "none" THEN s2
              ELSE IF Fails(s2, "write") THEN on_write_error(s2, mid, line)
              ELSE record_update(s2, mid, md, line, pt)

RECURSIVE on_data_loop(_, _, _, _)
on_data_loop(s, mcs, line, pt) ==
    IF mcs = <<>> \/ s.raised # "none" THEN s
    ELSE on_data_loop(process_mc(s, Head(mcs), line, pt), Tail(mcs), line, pt)

\* skipped without the heartbeat test.
skipped_no_heartbeat_test(env) == env.op # "mcm"

\* Whether on_data drops the raw line before decoding it.
skipped(env) == env.ct = "HEARTBEAT" \/ env.op # "mcm"

\* on_data(raw): raw is envelope env, line number line of the feed.
\* json.loads raises for a line that is not JSON and on_data returns;
\* obj.get raises AttributeError when obj is no dict, and the for loop
\* raises TypeError when "mc" is no list.
on_data(s, env, line, pt) ==
    IF skipped(env) THEN s
    ELSE IF env.form = "undecodable" THEN s
    ELSE IF env.form = "array" THEN Throw(s, "AttributeError")
    ELSE IF env.form = "mc_scalar" THEN Throw(s, "TypeError")
    ELSE on_data_loop(s, env.mc, line, pt)

\* shutdown_loop that flushes the open markets and leaves them as they are.
RECURSIVE shutdown_loop_flush_only(_, _)
shutdown_loop_flush_only(s, mids) ==
    IF mids = <<>> THEN s
    ELSE shutdown_loop_flush_only(flush_fsync(s, Head(mids)), Tail(mids))

\* shutdown_loop that is left by the first failure of an I/O call.
RECURSIVE shutdown_loop_stop_on_failure(_, _)
shutdown_loop_stop_on_failure(s, mids) ==
    IF mids = <<>> THEN s
    ELSE LET s1 == close_and_finalize(flush_fsync(s, Head(mids)), Head(mids))
         IN  IF s1.fault # s.fault THEN s1
             ELSE shutdown_loop_stop_on_failure(s1, Tail(mids))

\* The finally block of __main__: every open market is flushed, closed and
\* finalized, in the order of listener.files.
RECURSIVE shutdown_loop(_, _)
shutdown_loop(s, mids) ==
    IF mids = <<>> THEN s
    ELSE shutdown_loop(close_and_finalize(flush_fsync(s, Head(mids)), Head(mids)),
                       Tail(mids))

\* ------------------------------------------------------------ state
VARIABLES
    files, raw_files, paths, meta, stats, inplay,   \* the listener's maps
    disk, dirs,        \* the files and directories under BASE
    now,               \* the day utcnow() returns
    pc,                \* "running" (stream.start), "blocked", "exited", "killed"
    raised,            \* the exception that left on_data, "none" otherwise
    fed,               \* lines received so far; the next line is fed + 1
    runs,              \* process runs started
    obs                \* observations the properties are stated over

vars == <<files, raw_files, paths, meta, stats, inplay, disk, dirs, now, pc,
          raised, fed, runs, obs>>

\* The observations at the start of a process run.
StartObs(d, dr, killed, partEver) ==
    [ioErrors      |-> FALSE,     \* an I/O call has failed in this run
     failedAt      |-> EmptyDict, \* market -> line of its last write that raised
     everActive    |-> {},        \* markets that have been set in-play in this run
     terminal      |-> {},        \* markets that received status CLOSED in this run
     gateBreach    |-> {},        \* markets written to while not in-play
     offered       |-> EmptyDict, \* market -> line of each update of it while in-play
     accepted      |-> EmptyDict, \* market -> [line, path] of each write that returned
     finLog        |-> {},        \* final paths _finalize_file changed in the last step
     partEver      |-> partEver,  \* path -> lines ever written to that file
     finalizeCalls |-> EmptyDict, \* market -> calls of _close_and_finalize
     startDisk     |-> d,         \* the disk when this run started
     startDirs     |-> dr,
     killed        |-> killed,    \* the previous run was killed
     onlyHeartbeats |-> TRUE,     \* every line so far was a heartbeat or listed no market
     scen          |-> [k \in Keys |-> [phase |-> "new", n |-> 0]],
     isolated      |-> TRUE,      \* no failed write changed another market's state
     seen          |-> {},        \* markets listed in an update that on_data processed
     summaries     |-> <<>>,      \* the summary lines logged: [mid, lines, artifact]
     resolved      |-> {},        \* [mid, evt, start, final] of every path resolution
     finalizeFailed |-> FALSE,    \* a rename, merge or remove of _finalize_file failed
     finalizedEmpty |-> {},       \* markets whose zero-length .part was merged or renamed
     blockedOn     |-> "",        \* market whose I/O call has not returned
     lastForm      |-> "none"]    \* form of the line received last

\* The record the recorder's operators work on, for a handler call in which
\* the I/O call f fails.
State(f) ==
    [files |-> files, raw_files |-> raw_files, paths |-> paths, meta |-> meta,
     stats |-> stats, inplay |-> inplay, disk |-> disk, dirs |-> dirs,
     now |-> now, raised |-> "none", fault |-> f,
     obs_ioErrors |-> obs.ioErrors, obs_failedAt |-> obs.failedAt,
     obs_everActive |-> obs.everActive, obs_terminal |-> obs.terminal,
     obs_gateBreach |-> obs.gateBreach, obs_offered |-> obs.offered,
     obs_accepted |-> obs.accepted, obs_finLog |-> {},
     obs_partEver |-> obs.partEver, obs_finalizeCalls |-> obs.finalizeCalls,
     obs_seen |-> obs.seen,
     obs_summaries |-> obs.summaries, obs_resolved |-> obs.resolved,
     obs_finalizeFailed |-> obs.finalizeFailed,
     obs_finalizedEmpty |-> obs.finalizedEmpty]

\* The state after a handler call that ended in record r.
Becomes(r, o) ==
    /\ files' = r.files /\ raw_files' = r.raw_files /\ paths' = r.paths
    /\ meta' = r.meta /\ stats' = r.stats /\ inplay' = r.inplay
    /\ disk' = r.disk /\ dirs' = r.dirs
    /\ obs' = [o EXCEPT !.ioErrors = r.obs_ioErrors, !.failedAt = r.obs_failedAt,
                        !.everActive = r.obs_everActive, !.terminal = r.obs_terminal,
                        !.gateBreach = r.obs_gateBreach, !.offered = r.obs_offered,
                        !.accepted = r.obs_accepted, !.finLog = r.obs_finLog,
                        !.partEver = r.obs_partEver,
                        !.finalizeCalls = r.obs_finalizeCalls,
                        !.seen = r.obs_seen,
                        !.summaries = r.obs_summaries, !.resolved = r.obs_resolved,
                        !.finalizeFailed = r.obs_finalizeFailed,
                        !.finalizedEmpty = r.obs_finalizedEmpty]

\* PerMarketRecorder.__init__ on an empty BASE.
Init ==
    /\ files = <<>> /\ raw_files = <<>>
    /\ paths = EmptyDict /\ meta = EmptyDict /\ stats = EmptyDict /\ inplay = EmptyDict
    /\ disk = EmptyDict /\ dirs = {}
    /\ now = 1 /\ pc = "running" /\ raised = "none" /\ fed = 0 /\ runs = 1
    /\ obs = StartObs(EmptyDict, {}, FALSE, EmptyDict)

\* What the recorder holds for market k: its handle, paths, stats and files.
View(r, k) ==
    [files  |-> SelectSeq(r.files, LAMBDA e : e.mid = k),
     raw    |-> SelectSeq(r.raw_files, LAMBDA e : e.mid = k),
     paths  |-> Get(r.paths, k, [final |-> NoFile, part |-> NoFile]),
     stats  |-> Get(r.stats, k, fresh_stats), hasStats |-> Has(r.stats, k),
     inplay |-> Get(r.inplay, k, FALSE),
     disk   |-> [p \in {q \in DOMAIN r.disk : q.mid = k} |-> r.disk[p]]]

\* Whether a line is a well-formed envelope: a JSON object whose "mc" is a
\* list of objects.
WellFormed(env) ==
    env.form = "object" /\ \A i \in 1 .. Len(env.mc) : env.mc[i].form = "object"

\* A line that is a heartbeat or of another op than "mcm".
NotMarketChange(env) == env.ct = "HEARTBEAT" \/ env.op # "mcm"

\* The scenario of one market: definition(inPlay=true), then lines without
\* a definition, then definition(status=CLOSED); n counts the middle ones.
\* A line that lists the market twice, or an I/O failure, ends the scenario.
ScenStep(sc, env, k, broken) ==
    LET ups == SelectSeq(env.mc, LAMBDA m : m.id = k) IN
    IF NotMarketChange(env) \/ ups = <<>> THEN sc
    ELSE IF Len(ups) > 1 \/ broken THEN [phase |-> "void", n |-> 0]
    ELSE LET md == ups[1].marketDefinition IN
         CASE sc.phase = "new" /\ md = MdActive   -> [phase |-> "live", n |-> 0]
           [] sc.phase = "live" /\ md = NoMd      -> [phase |-> "live", n |-> sc.n + 1]
           [] sc.phase = "live" /\ md = MdClosed  -> [phase |-> "closed", n |-> sc.n]
           [] OTHER                               -> [phase |-> "void", n |-> 0]

\* stream.start() hands one received line, drawn from envs, to on_data, and
\* the I/O call f (drawn from faults) fails in it.
OnDataFrom(envs, faults) ==
    /\ pc = "running" /\ raised = "none" /\ fed < MaxEnvelopes
    /\ \E env \in envs, f \in faults :
         LET line == fed + 1
             r    == on_data(State(f), env, line, line)
             r0   == on_data(State("none"), env, line, line)
             hit  == {k \in DOMAIN r.obs_failedAt : r.obs_failedAt[k] = line}
             o    == [obs EXCEPT
                        !.onlyHeartbeats = @ /\ (NotMarketChange(env) \/ env.mc = <<>>),
                        !.scen = [k \in Keys |->
                                    ScenStep(@[k], env, k, r.obs_ioErrors /\ ~obs.ioErrors)],
                        !.isolated = @ /\ \A a \in hit : \A b \in Keys \ {a} :
                                                View(r, b) = View(r0, b),
                        !.lastForm = IF WellFormed(env) THEN "envelope"
                                     ELSE "malformed"]
         IN  /\ r.fault = "none"      \* the failing call did take place
             /\ Becomes(r, o)
             /\ raised' = r.raised
             /\ fed' = line
             /\ UNCHANGED <<now, pc, runs>>

\* KeyboardInterrupt, or the exception that left on_data, ends stream.start();
\* the finally block finalizes what is open and the process exits; the I/O
\* call f (drawn from faults) fails in it.
ShutdownFrom(faults) ==
    /\ pc = "running"
    /\ \E f \in faults :
         LET r == shutdown_loop(State(f), [i \in 1 .. Len(files) |-> files[i].mid])
         IN  /\ r.fault = "none"
             /\ Becomes(r, obs)
             /\ pc' = "exited"
             /\ UNCHANGED <<now, raised, fed, runs>>

\* Lengths 0 .. n of a prefix of a sequence of n lines.
Prefixes(q) == 0 .. Len(q)

\* The process is killed while stream.start() runs: of the lines pending in
\* each open writer a prefix of d[k] lines has left the 1 MiB buffer and
\* reached the file, the rest is lost with the process; no member of an open
\* writer is terminated.
Kill ==
    /\ pc = "running"
    /\ \E d \in [Mids(files) -> 0 .. MaxEnvelopes + MaxEnvelopes] :
         /\ \A k \in Mids(files) : d[k] \in Prefixes(Entry(files, k).pending)
         /\ LET data(k)  == SubSeq(Entry(files, k).pending, 1, d[k])
                after(p) ==
                    IF \E e \in Range(raw_files) : e.path = p
                    THEN LET raw == CHOOSE e \in Range(raw_files) : e.path = p
                         IN  IF d[raw.mid] = 0 THEN disk[p]
                             ELSE written(disk[p], raw.begun, data(raw.mid))
                    ELSE disk[p]
                lines(p) ==
                    IF \E e \in Range(raw_files) : e.path = p
                    THEN Range(data((CHOOSE e \in Range(raw_files) : e.path = p).mid))
                    ELSE {}
            IN  /\ disk' = [p \in DOMAIN disk |-> after(p)]
                /\ obs' = [obs EXCEPT !.partEver =
                             [p \in DOMAIN @ \cup DOMAIN disk |->
                                 Get(@, p, {}) \cup lines(p)],
                             !.finLog = {}]
    /\ pc' = "killed"
    /\ UNCHANGED <<files, raw_files, paths, meta, stats, inplay, dirs, now,
                   raised, fed, runs>>

\* A new process: PerMarketRecorder.__init__ over the disk as it was left.
Restart ==
    /\ pc \in {"exited", "killed"} /\ runs < MaxRuns
    /\ files' = <<>> /\ raw_files' = <<>>
    /\ paths' = EmptyDict /\ meta' = EmptyDict /\ stats' = EmptyDict
    /\ inplay' = EmptyDict
    /\ pc' = "running" /\ raised' = "none" /\ runs' = runs + 1
    /\ obs' = [StartObs(disk, dirs, pc = "killed", obs.partEver)
                 EXCEPT !.resolved = obs.resolved]
    /\ UNCHANGED <<disk, dirs, now, fed>>

\* stream.start() hands one received line, drawn from envs, to on_data, and
\* an I/O call that on_data makes for a market it writes to does not return:
\* the thread that runs stream.start() stays in that call.
StallFrom(envs) ==
    /\ pc = "running" /\ raised = "none" /\ fed < MaxEnvelopes
    /\ \E env \in envs :
         LET line  == fed + 1
             r     == on_data(State("none"), env, line, line)
             wrote == {k \in DOMAIN r.obs_accepted :
                          r.obs_accepted[k] # Get(obs.accepted, k, <<>>)}
         IN  \E a \in wrote :
                /\ obs' = [obs EXCEPT !.blockedOn = a, !.finLog = {}]
                /\ pc' = "blocked"
                /\ fed' = line
    /\ UNCHANGED <<files, raw_files, paths, meta, stats, inplay, disk, dirs, now,
                   raised, runs>>

\* Midnight UTC passes.
Tick ==
    /\ now < MaxDay
    /\ now' = now + 1
    /\ obs' = [obs EXCEPT !.finLog = {}]
    /\ UNCHANGED <<files, raw_files, paths, meta, stats, inplay, disk, dirs, pc,
                   raised, fed, runs>>

\* ------------------------------------------------------------ specifications
\* One process run over the feed of one market, with I/O failures.
OnData   == OnDataFrom(FeedLines, Faults)
Shutdown == ShutdownFrom(Faults)
Next     == OnData \/ Shutdown
Spec   == Init /\ [][Next]_vars

\* One process run over the feed of two markets, with failing writes.
OnDataTwoKeys == OnDataFrom(TwoKeyLines, {"none", "write"})
CleanShutdown == ShutdownFrom({"none"})
NextTwoKeys   == OnDataTwoKeys \/ CleanShutdown
SpecTwoKeys   == Init /\ [][NextTwoKeys]_vars

\* Several process runs (exit or kill, then a new process) across midnight.
OnDataRestart == OnDataFrom(RestartLines, {"none"})
NextRestart   == OnDataRestart \/ CleanShutdown \/ Kill \/ Restart \/ Tick
SpecRestart   == Init /\ [][NextRestart]_vars

\* One process run over a feed with malformed lines and null fields.
OnDataIrregular == OnDataFrom(IrregularLines, {"none"})
NextIrregular   == OnDataIrregular \/ CleanShutdown
SpecIrregular   == Init /\ [][NextIrregular]_vars

\* One process run over the feed of one market on a disk that can be full.
DiskFullLines   == One("M1", {NoMd, MdActive, MdInactive, MdActiveClosed})
OnDataDiskFull   == OnDataFrom(DiskFullLines, {"none", "nospace"})
ShutdownDiskFull == ShutdownFrom({"none", "nospace"})
NextDiskFull     == OnDataDiskFull \/ ShutdownDiskFull
SpecDiskFull     == Init /\ [][NextDiskFull]_vars

\* One process run over lines that each list one of two markets, with I/O
\* calls that do not return.
SingleLines  == One("M1", {NoMd, MdActive}) \cup One("M2", {NoMd, MdActive})
OnDataSingle == OnDataFrom(SingleLines, {"none"})
Stall        == StallFrom(SingleLines)
NextStall    == OnDataSingle \/ Stall \/ CleanShutdown
SpecStall    == Init /\ [][NextStall]_vars

\* One process run over the same lines, with I/O failures in the shutdown
\* path.
FailingShutdown == ShutdownFrom({"none", "flush", "close", "finalize"})
NextShutdown    == OnDataSingle \/ FailingShutdown
SpecShutdown    == Init /\ [][NextShutdown]_vars

\* One process run over the feed of one market that is closed and written
\* to again, with failing writes and failing finalize calls.
SessionLines     == One("M1", {NoMd, MdActive, MdActiveClosed})
OnDataSessions   == OnDataFrom(SessionLines, {"none", "write", "finalize", "copy"})
ShutdownSessions == ShutdownFrom({"none", "finalize", "copy"})
NextSessions     == OnDataSessions \/ ShutdownSessions
SpecSessions     == Init /\ [][NextSessions]_vars

\* ------------------------------------------------------------ properties
FinalOf(part_path) == [part_path EXCEPT !.ext = "jsonl.gz"]
PartOf(final_path) == [final_path EXCEPT !.ext = "jsonl.gz.part"]
IsFinal(path)      == path.ext = "jsonl.gz"

\* gzip.open(path).read() of a file of gzip members: the lines of the
\* members up to the first member that is not terminated, and whether the
\* whole file was read without error.
RECURSIVE Gunzip(_)
Gunzip(members) ==
    IF members = <<>> THEN [lines |-> <<>>, ok |-> TRUE]
    ELSE IF Head(members).done
         THEN LET r == Gunzip(Tail(members))
              IN  [lines |-> Head(members).lines \o r.lines, ok |-> r.ok]
         ELSE [lines |-> Head(members).lines, ok |-> FALSE]

\* The lines the file at path decompresses to; Readable: without error.
Content(path)  == Gunzip(Get(disk, path, <<>>)).lines
Readable(path) == Has(disk, path) /\ Gunzip(disk[path]).ok
StartContent(path) == Gunzip(Get(obs.startDisk, path, <<>>)).lines

\* The lines that have reached a file, in order, its members terminated or not.
RECURSIVE AllLinesInOrder(_)
AllLinesInOrder(members) ==
    IF members = <<>> THEN <<>>
    ELSE Head(members).lines \o AllLinesInOrder(Tail(members))

\* The lines in the members of a file, in whatever state.
RECURSIVE AllLines(_)
AllLines(members) ==
    IF members = <<>> THEN {}
    ELSE Range(Head(members).lines) \cup AllLines(Tail(members))

\* q without the repetitions of an element that directly follow it.
RECURSIVE Dedup(_)
Dedup(q) ==
    IF Len(q) <= 1 THEN q
    ELSE IF q[1] = q[2] THEN Dedup(Tail(q))
    ELSE <<q[1]>> \o Dedup(Tail(q))

\* The lines whose write for market k returned, on the writer open on path.
LinesAt(k, path) ==
    LET q == SelectSeq(Get(obs.accepted, k, <<>>), LAMBDA e : e.path = path)
    IN  [i \in 1 .. Len(q) |-> q[i].line]
PathsWritten(k) == {e.path : e \in Range(Get(obs.accepted, k, <<>>))}

\* C1 (round-trip identity): after a run without I/O failure that ended by
\* the shutdown path, the final artifact of every market that was listed
\* while in-play holds exactly the lines that listed it while in-play, each
\* once, in arrival order.
C1_RoundTrip ==
    (pc = "exited" /\ runs = 1 /\ raised = "none" /\ ~obs.ioErrors) =>
        \A k \in DOMAIN obs.offered :
            /\ Has(paths, k)
            /\ Readable(paths[k].final)
            /\ Content(paths[k].final) = Dedup(obs.offered[k])

\* C2 (active gate): no line was ever written for a market whose in-play
\* flag was not true at that moment, and a market never set in-play in this
\* run has no handle and no file that this run created or changed.
C2_ActiveGate ==
    /\ obs.gateBreach = {}
    /\ \A k \in Keys \ obs.everActive :
          /\ k \notin Mids(files) /\ k \notin Mids(raw_files)
          /\ ~Has(paths, k) /\ ~Has(stats, k)
          /\ \A p \in DOMAIN disk :
                p.mid = k => Has(obs.startDisk, p) /\ obs.startDisk[p] = disk[p]

\* A market that was seen with a definition and set not in-play, next to
\* nothing recorded for it.
C2_Witness ==
    \E k \in Keys : k \notin obs.everActive /\ Has(inplay, k) /\ Has(meta, k) /\ fed >= 2

\* C3 (crash resumption): when a run that follows a killed run has exited
\* without I/O failure, then for every .part path it wrote to, the final
\* artifact decompresses without error to what the final artifact held when
\* the run started, then the lines that had reached the orphaned .part, then
\* the lines written in this run, and the .part is gone.
C3_CrashResumption ==
    (pc = "exited" /\ obs.killed /\ ~obs.ioErrors) =>
        \A k \in DOMAIN obs.accepted : \A p \in PathsWritten(k) :
            /\ ~Has(disk, p)
            /\ Readable(FinalOf(p))
            /\ Content(FinalOf(p)) = StartContent(FinalOf(p))
                                     \o AllLinesInOrder(Get(obs.startDisk, p, <<>>))
                                     \o LinesAt(k, p)

\* C4 (finalize idempotence): in every state of a run, for every market, a
\* second _close_and_finalize right after a first one leaves the disk (final
\* artifact and .part) and the handle maps as the first one left them.
C4_FinalizeIdempotent ==
    pc = "running" =>
        \A k \in Keys :
            LET once  == close_and_finalize(State("none"), k)
                twice == close_and_finalize(once, k)
            IN  /\ twice.disk = once.disk
                /\ twice.files = once.files /\ twice.raw_files = once.raw_files

\* A market with an open handle, pending lines and a final artifact already
\* on disk: the first call merges, the second finds nothing to do.
C4_Witness ==
    /\ pc = "running"
    /\ \E k \in Mids(files) :
          /\ Entry(files, k).pending # <<>>
          /\ Content(paths[k].final) # <<>>

\* C5 (terminal finality): once a market has received status CLOSED, no step
\* of a run without I/O failure writes a further line for it or opens a
\* handle for it, and _close_and_finalize runs at most once for it, exactly
\* once by the time the run exits when lines were recorded for it.
C5_TerminalFinality ==
    [][(runs' = runs /\ ~obs'.ioErrors) =>
         \A k \in obs.terminal :
            /\ Get(obs'.accepted, k, <<>>) = Get(obs.accepted, k, <<>>)
            /\ (k \in Mids(files') => k \in Mids(files))
            /\ Get(obs'.finalizeCalls, k, 0) <= 1
            /\ (pc' = "exited" /\ Has(obs.accepted, k)
                    => Get(obs'.finalizeCalls, k, 0) = 1)]_vars

\* C6 (terminal-inclusion line count, as claimed): after definition(inPlay
\* = true), n lines without definition and definition(status = CLOSED), the
\* final artifact holds n or n + 1 lines and is the market's only file.
C6_TerminalCountClaimed ==
    \A k \in Keys :
        obs.scen[k].phase = "closed" =>
            /\ Has(paths, k) /\ Readable(paths[k].final)
            /\ Len(Content(paths[k].final)) \in {obs.scen[k].n, obs.scen[k].n + 1}
            /\ {p \in DOMAIN disk : p.mid = k} = {paths[k].final}

\* C6 (as amended): in that scenario the final artifact holds exactly n + 2
\* lines (the activating line, the n lines, the CLOSED line) and is the
\* market's only file.
C6_TerminalCount ==
    \A k \in Keys :
        obs.scen[k].phase = "closed" =>
            /\ Has(paths, k) /\ Readable(paths[k].final)
            /\ Len(Content(paths[k].final)) = obs.scen[k].n + 2
            /\ {p \in DOMAIN disk : p.mid = k} = {paths[k].final}

\* The scenario completed with at least one line between the definitions.
C6_Witness ==
    \E k \in Keys : obs.scen[k].phase = "closed" /\ obs.scen[k].n >= 1

\* C7 (isolation of write failures): a write that raised for one market left
\* the handle, paths, stats and files of every other market as the same line
\* leaves them when no write fails; and at exit the final artifact of every
\* market whose own writes never raised holds one line per update that
\* listed it while in-play, in arrival order.
C7_WriteFailureIsolated ==
    /\ obs.isolated
    /\ pc = "exited" =>
          \A b \in DOMAIN obs.offered :
              b \notin DOMAIN obs.failedAt =>
                  /\ Has(paths, b)
                  /\ Readable(paths[b].final)
                  /\ Content(paths[b].final) = obs.offered[b]
                  /\ ~Has(disk, paths[b].part)

\* A write of market a raised, market b was written to in the same line or
\* later, and the run has exited.
C7_Witness ==
    /\ pc = "exited"
    /\ \E a \in DOMAIN obs.failedAt : \E b \in DOMAIN obs.accepted :
          /\ b # a /\ b \notin DOMAIN obs.failedAt
          /\ \E e \in Range(obs.accepted[b]) : e.line >= obs.failedAt[a]

\* C8 (containment of per-key I/O errors): no I/O failure leaves on_data.
C8_IOErrorsContained == raised # "OSError"

\* C9 (heartbeat immunity): while every line received was a heartbeat or
\* listed no market, every map of the recorder is empty and the disk holds
\* the files and directories it held when the run started.
C9_HeartbeatImmunity ==
    obs.onlyHeartbeats =>
        /\ files = <<>> /\ raw_files = <<>>
        /\ DOMAIN paths = {} /\ DOMAIN meta = {} /\ DOMAIN stats = {}
        /\ DOMAIN inplay = {}
        /\ disk = obs.startDisk /\ dirs = obs.startDirs

\* Two or more such lines have been received.
C9_Witness == obs.onlyHeartbeats /\ fed >= 2

\* C10 (final artifact mutated only by finalize): a step creates or changes
\* a final path only if _finalize_file acted on that path in the step, and
\* every line the final path then holds was written to its .part file before.
C10_FinalOnlyByFinalize ==
    [][\A p \in DOMAIN disk' :
          (IsFinal(p) /\ (~Has(disk, p) \/ disk'[p] # disk[p])) =>
              /\ p \in obs'.finLog
              /\ AllLines(disk'[p]) \subseteq Get(obs'.partEver, PartOf(p), {})]_vars

\* A final artifact that a finalize has extended by a second session.
C10_Witness ==
    \E p \in obs.finLog : Has(disk, p) /\ Len(disk[p]) >= 2

\* The markets for which a write returned in this run, and the .part files
\* of a market on disk.
Recorded     == DOMAIN obs.accepted
PartsOf(k)   == {p \in DOMAIN disk : p.mid = k /\ ~IsFinal(p)}

SummariesOf(k) == SelectSeq(obs.summaries, LAMBDA e : e.mid = k)

\* C12 (exactly one summary per key): no market has two summary lines in a
\* run, and when the run has exited every recorded market has one.
C12_OneSummaryPerKey ==
    /\ \A k \in Keys : Len(SummariesOf(k)) <= 1
    /\ pc = "exited" => \A k \in Recorded : Len(SummariesOf(k)) = 1

\* C16 (summary line count matches the artifact): in a run without I/O
\* failure, the lines value of every summary line equals the number of
\* lines the market's final artifact decompressed to when the summary was
\* logged.
C16_SummaryLineCount ==
    ~obs.ioErrors =>
        \A i \in 1 .. Len(obs.summaries) :
            obs.summaries[i].lines = Len(Gunzip(obs.summaries[i].final).lines)

\* C13 (path determinism): over all runs, two resolutions of the paths of
\* the same market with the same category and the same start time give the
\* same final path, whatever the wall clock was at each of them.
C13_PathDeterminism ==
    \A a \in obs.resolved : \A b \in obs.resolved :
        (a.mid = b.mid /\ a.evt = b.evt /\ a.start = b.start)
            => a.final = b.final

\* C14 (malformed input is never fatal): a step in which on_data received a
\* line that is no well-formed envelope raises nothing and leaves the maps
\* of the recorder, the files and the directories as they were.
C14_MalformedNeverFatal ==
    [][(fed' = fed + 1 /\ obs'.lastForm = "malformed") =>
          /\ raised' = "none"
          /\ UNCHANGED <<files, raw_files, paths, meta, stats, inplay,
                         disk, dirs>>]_vars

\* C15 (path lookup for seen keys): every market that was listed in an
\* update on_data processed has an entry in the recorder's map of paths.
C15_PathKnownOnceSeen ==
    \A k \in obs.seen : Has(paths, k) /\ IsFinal(paths[k].final)

\* The line that lists one update of market k with definition fragment md,
\* and the recorder after on_data has processed it as the next line, no I/O
\* call failing.
Update(k, md) == Envelope("mcm", "absent", <<Mc(k, md)>>)
After(k, md)  == on_data(State("none"), Update(k, md), fed + 1, fed + 1)
Receiving     == pc = "running" /\ raised = "none"

\* The last of the lines that have reached the file at path on disk d.
LastLineAt(d, path) ==
    LET q == AllLinesInOrder(Get(d, path, <<>>))
    IN  IF q = <<>> THEN 0 ELSE q[Len(q)]

\* C17 (append-then-finalize ordering): in every state of a run, when the
\* next line carries status CLOSED for a market that is in-play after the
\* merge of that definition, the line is the last line of the market's
\* final artifact when on_data returns, and no .part and no handle is left.
C17_AppendThenFinalize ==
    Receiving =>
        \A k \in Keys : \A md \in {MdClosed, MdActiveClosed} :
            LET r == After(k, md) IN
            Get(r.inplay, k, FALSE) =>
                /\ LastLineAt(r.disk, r.paths[k].final) = fed + 1
                /\ ~Has(r.disk, r.paths[k].part)
                /\ k \notin Mids(r.files)

\* A market that was in-play with lines recorded received CLOSED in the
\* line received last, and that line ends its final artifact.
C17_Witness ==
    \E k \in obs.terminal :
        /\ Get(inplay, k, FALSE) /\ Has(paths, k) /\ k \notin Mids(files)
        /\ fed >= 2 /\ ~obs.ioErrors
        /\ Content(paths[k].final) = <<fed - 1, fed>>

\* C18 (every terminal definition finalizes the key): in every state of a
\* run, when a market has an open handle and the next line carries status
\* CLOSED for it, in-play or not, then when on_data returns the market has
\* no open handle and no .part, and _close_and_finalize has run for it.
C18_TerminalFinalizes ==
    Receiving =>
        \A k \in Mids(files) :
            \A md \in {MdClosed, MdClosedInactive, MdActiveClosed} :
                LET r == After(k, md) IN
                /\ k \notin Mids(r.files) /\ k \notin Mids(r.raw_files)
                /\ ~Has(r.disk, r.paths[k].part)
                /\ Get(r.obs_finalizeCalls, k, 0) = Get(obs.finalizeCalls, k, 0) + 1

\* Whether dict new holds at key x the value dict old holds there, when old
\* holds one.
Keeps(new, old, x) == Has(old, x) => (Has(new, x) /\ new[x] = old[x])

\* C19 (definition merge never clears known state): in every state of a
\* run, when the next line carries a definition fragment for a market, each
\* of category, start time, display name and in-play flag that is known
\* and whose field is absent or null in the fragment is, when on_data
\* returns, what it was.
C19_MergeKeepsKnown ==
    Receiving =>
        \A k \in Keys : \A md \in {MdNulls, MdMeta, MdActive, MdClosed} :
            LET r      == After(k, md)
                known  == Get(meta, k, EmptyDict)
                merged_ == Get(r.meta, k, EmptyDict)
            IN  /\ IsNone(md.eventTypeId) => Keeps(merged_, known, "eventTypeId")
                /\ IsNone(md.marketTime)  => Keeps(merged_, known, "marketTime")
                /\ IsNone(md.name)        => Keeps(merged_, known, "marketName")
                /\ IsNone(md.inPlay)      => Keeps(r.inplay, inplay, k)

\* C20 (same-envelope activation and deactivation): in every state of a
\* run, when the next line's definition sets a market that is not in-play
\* in-play, that line is written for the market (it is the last line of the
\* handle's pending lines, or of the final artifact when the definition is
\* also CLOSED); and when the next line's definition sets a market that is
\* in-play not in-play, nothing is written for the market.
C20_SameEnvelopeGate ==
    Receiving =>
        \A k \in Keys :
            /\ ~Get(inplay, k, FALSE) =>
                  /\ LET r == After(k, MdActive) IN
                        /\ k \in Mids(r.files)
                        /\ Entry(r.files, k).pending # <<>>
                        /\ Entry(r.files, k).pending[Len(Entry(r.files, k).pending)]
                              = fed + 1
                  /\ LET r == After(k, MdActiveClosed) IN
                        LastLineAt(r.disk, r.paths[k].final) = fed + 1
            /\ Get(inplay, k, FALSE) =>
                  \A md \in {MdInactive, MdClosedInactive} :
                      LET r == After(k, md) IN
                        /\ r.files = files /\ r.disk = disk
                        /\ r.obs_accepted = obs.accepted

\* The line before the last set a market in-play and is the one line
\* written for it; the last line set it not in-play and was not written.
C20_Witness ==
    \E k \in Recorded :
        /\ Has(inplay, k) /\ ~inplay[k] /\ k \in Mids(files)
        /\ fed >= 2
        /\ Entry(files, k).pending = <<fed - 1>>

\* C21 (handle existence invariant): between two lines every market has at
\* most one handle, and a market with a handle has its in-play flag true and
\* at least one line written through that handle.
C21_HandleOnlyWhileActive ==
    /\ \A i \in 1 .. Len(files) : \A j \in 1 .. Len(files) :
            files[i].mid = files[j].mid => i = j
    /\ \A k \in Mids(files) :
            /\ Get(inplay, k, FALSE)
            /\ Entry(files, k).pending # <<>>

\* C22 (stats are monotonic): in no step of a run do the lines or the bytes
\* counted for a market decrease, and a first_pt that is set stays as it is.
C22_StatsMonotonic ==
    [][runs' = runs =>
         \A k \in DOMAIN stats :
            /\ Has(stats', k)
            /\ stats'[k].lines >= stats[k].lines
            /\ stats'[k].bytes >= stats[k].bytes
            /\ stats[k].first_pt # 0 => stats'[k].first_pt = stats[k].first_pt]_vars

\* The recorder after the handle of mid, if any, has been flushed and closed,
\* and after _finalize_file has then run for mid, from the current state.
Closed(mid)    == close_writer(flush_fsync(State("none"), mid), mid)
Finalized(mid) == finalize_file(Closed(mid), mid)

\* C23 (finalize result): in every state of a run, when _finalize_file runs
\* without failure for a market whose .part exists, the final file holds
\* afterwards the bytes of .part when it did not exist, and its previous
\* bytes followed by the bytes of .part when it did; .part is gone.
C23_FinalizeResult ==
    \A k \in DOMAIN paths :
        LET before == Closed(k).disk
            after  == Finalized(k).disk
            final  == paths[k].final
            part   == paths[k].part
        IN  Has(before, part) =>
                /\ ~Has(after, part)
                /\ Has(after, final)
                /\ after[final] = IF Has(before, final)
                                  THEN before[final] \o before[part]
                                  ELSE before[part]

\* A market whose .part was merged behind an existing final file: finalized
\* twice without any failure, its final file holds the members of both.
C23_Witness ==
    /\ ~obs.ioErrors
    /\ \E k \in DOMAIN paths :
            /\ Get(obs.finalizeCalls, k, 0) >= 2
            /\ ~Has(disk, paths[k].part)
            /\ Has(disk, paths[k].final)
            /\ Len(disk[paths[k].final]) = 2
            /\ disk[paths[k].final][1].lines # disk[paths[k].final][2].lines

\* What _finalize_file can change: the disk and the recorder's maps.
Effects(r) ==
    [files |-> r.files, raw_files |-> r.raw_files, paths |-> r.paths,
     meta |-> r.meta, stats |-> r.stats, inplay |-> r.inplay,
     disk |-> r.disk, dirs |-> r.dirs]

\* C24 (finalize is a no-op without payload): no _finalize_file of the run
\* has merged or renamed a zero-length .part, and in every state of the run
\* a _finalize_file for a market whose .part is missing or zero-length
\* changes neither the disk nor a map of the recorder.
C24_FinalizeNoPayloadNoOp ==
    /\ obs.finalizedEmpty = {}
    /\ \A k \in DOMAIN paths :
          (  k \notin Mids(files)
          /\ (Has(disk, paths[k].part) => disk[paths[k].part] = <<>>))
          => Effects(finalize_file(State("none"), k)) = Effects(State("none"))

\* C25 (flush after every append): between two lines no line that was
\* written to a handle is still pending in its buffers, and when the process
\* is killed between two lines every line whose write returned in this run
\* is in the .part file it was written to or in the final file of that path.
C25_FlushAfterAppend ==
    /\ pc = "running" => \A k \in Mids(files) : Entry(files, k).pending = <<>>
    /\ pc = "killed" =>
          \A k \in Recorded : \A e \in Range(obs.accepted[k]) :
              e.line \in AllLines(Get(disk, e.path, <<>>))
                         \cup AllLines(Get(disk, FinalOf(e.path), <<>>))

\* C26 (no cross-key blocking): while an I/O call for one market has not
\* returned and the feed has a further line, on_data can be handed a line
\* that lists only another market.
C26_NoCrossKeyBlocking ==
    \A b \in Keys :
        (obs.blockedOn # "" /\ b # obs.blockedOn /\ fed < MaxEnvelopes)
        => ENABLED OnDataFrom(One(b, {NoMd}), {"none"})

\* C27 (handle-map consistency): in every state that on_data or the shutdown
\* loop left without an exception, files and raw_files hold the same markets,
\* and each of them has an entry in paths and in stats.
C27_HandleMapsConsistent ==
    raised = "none" =>
        /\ Mids(files) = Mids(raw_files)
        /\ Len(files) = Len(raw_files)
        /\ \A k \in Mids(files) : Has(paths, k) /\ Has(stats, k)

\* A market whose handle was closed and finalized and is open again.
C27_Witness ==
    /\ raised = "none" /\ pc = "running"
    /\ \E k \in Mids(files) :
            /\ k \in Mids(raw_files)
            /\ Get(obs.finalizeCalls, k, 0) >= 1
            /\ Has(disk, Entry(raw_files, k).path)

\* Every file market k wrote to in this run has been finalized, and its
\* final file decompresses to the lines written to it, in the order written.
Delivered(k) ==
    \A p \in PathsWritten(k) :
        /\ ~Has(disk, p)
        /\ Readable(FinalOf(p))
        /\ Content(FinalOf(p)) = LinesAt(k, p)

\* C28 (multi-session concatenation): in a run in which no rename, merge or
\* remove of _finalize_file failed, whenever a market has no open handle its
\* final file holds the lines of all its handles of the run, in the order
\* they were written, also when a handle was closed by a write error or by
\* a CLOSED definition and opened again.
C28_SessionsConcatenated ==
    ~obs.finalizeFailed =>
        \A k \in Recorded : k \notin Mids(files) => Delivered(k)

\* A market closed after the third finalize of the run, its final file made
\* of the members of more than one handle.
C28_Witness ==
    /\ ~obs.finalizeFailed
    /\ \E k \in Recorded :
            /\ k \notin Mids(files)
            /\ Get(obs.finalizeCalls, k, 0) = 3
            /\ Len(disk[paths[k].final]) >= 2
            /\ Len(Content(paths[k].final)) >= 2

\* C29 (a failed finalize keeps the payload): whatever rename or merge of
\* _finalize_file failed in the run, no exception left on_data for it, and
\* once a market has no open handle and no .part its final file holds the
\* lines of all its handles of the run, in the order they were written.
C29_FailedFinalizeKeepsPayload ==
    /\ (obs.finalizeFailed /\ pc = "running") => raised = "none"
    /\ \A k \in Recorded :
          (k \notin Mids(files) /\ \A p \in PathsWritten(k) : ~Has(disk, p))
          => Delivered(k)

\* C30 (the shutdown loop leaves no open handle): the step of the shutdown
\* path, whichever flush, close or finalize call fails in it, ends with both
\* handle maps empty and has run _close_and_finalize exactly once for each
\* market that had an open handle, and for no other market.
C30_ShutdownClosesAll ==
    [][(pc = "running" /\ pc' = "exited") =>
          /\ files' = <<>> /\ raw_files' = <<>>
          /\ \A k \in Keys :
                Get(obs'.finalizeCalls, k, 0) =
                    Get(obs.finalizeCalls, k, 0)
                    + (IF k \in Mids(files) THEN 1 ELSE 0)]_vars

\* The shutdown path has closed the handles of two markets, and an I/O call
\* failed in it.
C30_Witness ==
    /\ pc = "exited" /\ obs.ioErrors /\ files = <<>> /\ raw_files = <<>>
    /\ \A k \in Keys : k \in Recorded /\ Get(obs.finalizeCalls, k, 0) = 1

=============================================================================
